---- MODULE Spec2Model ----
(***************************************************************************)
(* The line-editing and input-dispatch core of IRust: the event handlers   *)
(* of src/irust/events.rs and the dispatcher of src/irust.rs, as a state   *)
(* machine over the text buffer, the screen cursor, the completion         *)
(* (racer) state and the history lock.                                     *)
(*                                                                         *)
(* A character is a string of length one, a text is a sequence of          *)
(* characters.  Every handler is an operator from a session record to the  *)
(* session record it leaves; the action of an event applies the operator   *)
(* to the current state.  Rendering calls that keep no state in the        *)
(* session (print_input, cursor.hide/show, raw.clear) are left out of the  *)
(* handlers' bodies; what a submit prints after the evaluator has answered *)
(* is recorded in printed.  The build modelled is the unix one             *)
(* (handle_ctrl_z has a body only there).                                  *)
(***************************************************************************)
EXTENDS Integers, Sequences, FiniteSets, TLC

VARIABLES buffer, buffer_pos, cursor, racer_on, update_lock, active_suggestion,
          suggestions, sugg_idx, history_locked, mode, operation_number, calls,
          printed, ev

vars == <<buffer, buffer_pos, cursor, racer_on, update_lock, active_suggestion,
          suggestions, sugg_idx, history_locked, mode, operation_number, calls,
          printed, ev>>

----------------------------------------------------------------------------
(* Bounds and input sets *)

\* longest buffer the model lets the events build
MaxLen == 4

\* greatest value of the operation counter the model lets the submits reach
MaxOps == 1

\* the characters a key event can carry in the main specification
Chars == {"a", ":"}

\* Rust's char::is_alphanumeric, on the characters the model uses
IsAlphanumeric(c) ==
    c \in {"a", "b", "e", "f", "i", "l", "m", "n", "o", "r", "t", "x", "z", "1"}

\* Rust's char::is_whitespace, on the characters the model uses
IsWhitespace(c) == c \in {" ", "\n", "\t"}

\* the answers of the completion provider: no candidate, or two candidates
Cand1 == <<"a">>
Cand2 == <<":", "a">>
ProviderAnswers == {<<>>, <<Cand1, Cand2>>}

\* the outcomes of the evaluator on a submitted buffer
EvalOutcomes == {"ok_empty", "ok_output", "err"}

----------------------------------------------------------------------------
(* The session record *)

S == [buffer |-> buffer, pos |-> buffer_pos, cursor |-> cursor,
      racer_on |-> racer_on, update_lock |-> update_lock,
      active_suggestion |-> active_suggestion, suggestions |-> suggestions,
      sugg_idx |-> sugg_idx, history_locked |-> history_locked, mode |-> mode,
      operation_number |-> operation_number, calls |-> calls,
      printed |-> printed]

\* the session as an event finds it: the calls and the prints of the event
\* before are forgotten
Fresh == [S EXCEPT !.calls = <<>>, !.printed = <<>>]

Apply(r, e) ==
    /\ buffer' = r.buffer
    /\ buffer_pos' = r.pos
    /\ cursor' = r.cursor
    /\ racer_on' = r.racer_on
    /\ update_lock' = r.update_lock
    /\ active_suggestion' = r.active_suggestion
    /\ suggestions' = r.suggestions
    /\ sugg_idx' = r.sugg_idx
    /\ history_locked' = r.history_locked
    /\ mode' = r.mode
    /\ operation_number' = r.operation_number
    /\ calls' = r.calls
    /\ printed' = r.printed
    /\ ev' = e

----------------------------------------------------------------------------
(* TextBuffer (printer::buffer::Buffer) *)

buffer_is_empty(s) == Len(s.buffer) = 0
buffer_is_at_start(s) == s.pos = 0
buffer_is_at_end(s) == s.pos = Len(s.buffer)

\* pos sits at column 0 of its logical line
buffer_is_at_string_line_start(s) ==
    s.pos = 0 \/ (s.pos <= Len(s.buffer) /\ s.buffer[s.pos] = "\n")

buffer_move_forward(s) ==
    IF s.pos < Len(s.buffer) THEN [s EXCEPT !.pos = s.pos + 1] ELSE s

buffer_move_backward(s) ==
    IF s.pos > 0 THEN [s EXCEPT !.pos = s.pos - 1] ELSE s

buffer_insert(s, c) ==
    [s EXCEPT !.buffer = SubSeq(s.buffer, 1, s.pos) \o <<c>>
                           \o SubSeq(s.buffer, s.pos + 1, Len(s.buffer)),
              !.pos = s.pos + 1]

RECURSIVE buffer_insert_str(_, _)
buffer_insert_str(s, str) ==
    IF str = <<>> THEN s
    ELSE buffer_insert_str(buffer_insert(s, Head(str)), Tail(str))

buffer_remove_current_char(s) ==
    IF s.pos < Len(s.buffer)
    THEN [s EXCEPT !.buffer = SubSeq(s.buffer, 1, s.pos)
                                \o SubSeq(s.buffer, s.pos + 2, Len(s.buffer))]
    ELSE s

buffer_clear(s) == [s EXCEPT !.buffer = <<>>, !.pos = 0]

buffer_goto_start(s) == [s EXCEPT !.pos = 0]

\* Option<&char>: <<>> is None, <<c>> is Some(c)
buffer_current_char(s) ==
    IF s.pos < Len(s.buffer) THEN <<s.buffer[s.pos + 1]>> ELSE <<>>

buffer_previous_char(s) ==
    IF s.pos > 0 /\ s.pos <= Len(s.buffer) THEN <<s.buffer[s.pos]>> ELSE <<>>

buffer_next_char(s) ==
    IF s.pos + 1 < Len(s.buffer) THEN <<s.buffer[s.pos + 2]>> ELSE <<>>

----------------------------------------------------------------------------
(* ScreenCursor (printer::cursor::Cursor): the cursor is the number of     *)
(* cells it stands after the prompt start, counted along the input.        *)

cursor_move_right(s) == [s EXCEPT !.cursor = s.cursor + 1]
cursor_move_right_unbounded(s) == [s EXCEPT !.cursor = s.cursor + 1]
cursor_move_left(s) == [s EXCEPT !.cursor = s.cursor - 1]
cursor_goto_start(s) == [s EXCEPT !.cursor = 0]

cursor_is_at_line_start(s) ==
    s.cursor = 0 \/ (s.cursor \in 1..Len(s.buffer) /\ s.buffer[s.cursor] = "\n")

cursor_is_at_line_end(s) ==
    s.cursor = Len(s.buffer)
      \/ (s.cursor \in 0..(Len(s.buffer) - 1) /\ s.buffer[s.cursor + 1] = "\n")

\* Printer::write_newline: the transcript goes on at the start of a new row
printer_write_newline(s) == cursor_goto_start(s)

\* Printer::clear: the screen is cleared and the cursor re-derived
printer_clear(s) == cursor_goto_start(s)

----------------------------------------------------------------------------
(* History lock and racer (completion) state *)

history_unlock(s) == [s EXCEPT !.history_locked = FALSE]
history_lock(s) == [s EXCEPT !.history_locked = TRUE]

\* Racer::unlock_racer_update, through self.racer.as_mut().map(..): the lock
\* and the suggestion it guarded are dropped
unlock_racer_update(s) ==
    IF s.racer_on
    THEN [s EXCEPT !.update_lock = FALSE, !.active_suggestion = <<>>]
    ELSE s

lock_racer_update(s) == [s EXCEPT !.update_lock = TRUE]

\* a call into an external collaborator, recorded for the event under way
call(s, what) == [s EXCEPT !.calls = Append(s.calls, what)]

\* Racer::update_suggestions: the provider is asked unless the lock is held
update_suggestions(s, answer) ==
    IF s.update_lock THEN s
    ELSE [call(s, "completion_query") EXCEPT !.suggestions = answer, !.sugg_idx = 0]

\* Racer::cycle_suggestions: the next (Down) or previous (Up) candidate,
\* wrapping round, becomes the active suggestion
cycle_suggestions(s, cycle) ==
    LET n == Len(s.suggestions)
        i == IF cycle = "Down"
             THEN (s.sugg_idx % n) + 1
             ELSE IF s.sugg_idx <= 1 THEN n ELSE s.sugg_idx - 1
    IN  IF n = 0 THEN [s EXCEPT !.active_suggestion = <<>>]
        ELSE [s EXCEPT !.sugg_idx = i, !.active_suggestion = <<s.suggestions[i]>>]

\* self.racer.as_mut().map(|r| r.active_suggestion.take()).flatten()
take_active_suggestion(s) == [s EXCEPT !.active_suggestion = <<>>]

----------------------------------------------------------------------------
(* Text helpers of the Enter path *)

RECURSIVE trim_end(_)
trim_end(t) ==
    IF t # <<>> /\ IsWhitespace(t[Len(t)])
    THEN trim_end(SubSeq(t, 1, Len(t) - 1))
    ELSE t

starts_with(t, prefix) ==
    Len(t) >= Len(prefix) /\ SubSeq(t, 1, Len(prefix)) = prefix

\* openers minus closers of one kind of bracket
RECURSIVE bracket_balance(_, _, _)
bracket_balance(t, open, close) ==
    IF t = <<>> THEN 0
    ELSE (IF Head(t) = open THEN 1 ELSE IF Head(t) = close THEN -1 ELSE 0)
           + bracket_balance(Tail(t), open, close)

\* StringTools::unmatched_brackets
unmatched_brackets(t) ==
    \/ bracket_balance(t, "(", ")") # 0
    \/ bracket_balance(t, "[", "]") # 0
    \/ bracket_balance(t, "{", "}") # 0

\* incomplete_input whose ends_with looks at the text as it is, not trimmed
incomplete_input_untrimmed(t) ==
    \/ unmatched_brackets(t)
    \/ t # <<>> /\ t[Len(t)] \in {":", ".", "="}

incomplete_input(t) ==
    \/ unmatched_brackets(t)
    \/ LET r == trim_end(t) IN r # <<>> /\ r[Len(r)] \in {":", ".", "="}

input_is_cmd_or_shell(t) == starts_with(t, <<":">>) \/ starts_with(t, <<":", ":">>)

\* IRust::should_push_to_history: a non-empty buffer that differs from the
\* entry before it (differs is the History collaborator's answer)
should_push_to_history(t, differs) == t # <<>> /\ differs

----------------------------------------------------------------------------
(* The handlers of events.rs *)

handle_character(s, c) ==
    unlock_racer_update(history_unlock(
        cursor_move_right_unbounded(buffer_insert(s, c))))

\* for c in suggestion.chars() { self.handle_character(c)?; }
RECURSIVE replay_characters(_, _)
replay_characters(s, str) ==
    IF str = <<>> THEN s
    ELSE replay_characters(handle_character(s, Head(str)), Tail(str))

\* the PrintQueue of lines 48-56: what parse() returned, or on Err the error
\* string and a newline
eval_output(outcome) ==
    IF outcome = "ok_output" THEN <<"output">>
    ELSE IF outcome = "err" THEN <<"error", "newline">>
    ELSE <<>>

\* Printer::print_output and print_prompt_if_set, recorded for the event under way
print(s, items) == [s EXCEPT !.printed = s.printed \o items]

\* a submit whose parse() is followed by ?: the evaluator's Err leaves the handler
submit_error_returned(s, differs, outcome) ==
    LET text == s.buffer
        s1 == printer_write_newline(s)
        s2 == IF should_push_to_history(text, differs)
              THEN call(s1, "history_push") ELSE s1
        s3 == call(s2, "evaluator_submit")
        output == eval_output(outcome)
        s4 == buffer_clear(s3)
        s5 == IF output # <<>>
              THEN [print(s4, output) EXCEPT !.operation_number = @ + 1]
              ELSE s4
    IN  IF outcome = "err" THEN [s3 EXCEPT !.mode = "failed"]
        ELSE print(s5, <<"prompt">>)

\* a submit that pushes to history after the evaluator has answered
submit_push_after_parse(s, differs, outcome) ==
    LET text == s.buffer
        s1 == printer_write_newline(s)
        s2 == call(s1, "evaluator_submit")
        s3 == IF should_push_to_history(text, differs)
              THEN call(s2, "history_push") ELSE s2
        output == eval_output(outcome)
        s4 == buffer_clear(s3)
        s5 == IF output # <<>>
              THEN [print(s4, output) EXCEPT !.operation_number = @ + 1]
              ELSE s4
    IN  print(s5, <<"prompt">>)

\* the submit branch of handle_enter (lines 37-74); outcome is what parse()
\* returns
submit(s, differs, outcome) ==
    LET text == s.buffer
        s1 == printer_write_newline(s)
        s2 == IF should_push_to_history(text, differs)
              THEN call(s1, "history_push") ELSE s1
        s3 == call(s2, "evaluator_submit")
        output == eval_output(outcome)
        s4 == buffer_clear(s3)
        s5 == IF output # <<>>
              THEN [print(s4, output) EXCEPT !.operation_number = @ + 1]
              ELSE s4
    IN  print(s5, <<"prompt">>)

handle_enter(s, force_eval, differs, outcome) ==
    LET s1 == history_unlock(s)
        text == s1.buffer
    IN  IF ~force_eval /\ ~input_is_cmd_or_shell(text) /\ incomplete_input(text)
        THEN cursor_move_right(buffer_insert(s1, "\n"))
        ELSE submit(s1, differs, outcome)

handle_alt_enter(s) == cursor_move_right(buffer_insert(s, "\n"))

\* const TAB: &str = "   \t";
TAB == <<" ", " ", " ", "\t">>

\* handle_tab that asks the provider before it looks at the line start
handle_tab_query_first(s, answer) ==
    LET s1 == IF s.racer_on THEN update_suggestions(s, answer) ELSE s
    IN  IF buffer_is_at_string_line_start(s1)
        THEN cursor_move_right_unbounded(cursor_move_right_unbounded(
               cursor_move_right_unbounded(cursor_move_right_unbounded(
                 buffer_insert_str(s1, TAB)))))
        ELSE IF s1.racer_on
             THEN cycle_suggestions(lock_racer_update(s1), "Down")
             ELSE s1

handle_tab(s, answer) ==
    IF buffer_is_at_string_line_start(s)
    THEN cursor_move_right_unbounded(cursor_move_right_unbounded(
           cursor_move_right_unbounded(cursor_move_right_unbounded(
             buffer_insert_str(s, TAB)))))
    ELSE IF s.racer_on
         THEN cycle_suggestions(lock_racer_update(update_suggestions(s, answer)), "Down")
         ELSE s

handle_back_tab(s, answer) ==
    IF s.racer_on
    THEN cycle_suggestions(lock_racer_update(update_suggestions(s, answer)), "Up")
    ELSE s

\* handle_right with the else dropped: the step forward follows an acceptance too
handle_right_fallthrough(s) ==
    LET s1 == IF s.racer_on /\ s.active_suggestion # <<>>
              THEN replay_characters(take_active_suggestion(s), s.active_suggestion[1])
              ELSE s
    IN  IF ~buffer_is_at_end(s1)
        THEN buffer_move_forward(cursor_move_right(s1))
        ELSE s1

handle_right(s) ==
    IF s.racer_on /\ s.active_suggestion # <<>>
    THEN replay_characters(take_active_suggestion(s), s.active_suggestion[1])
    ELSE IF ~buffer_is_at_end(s)
         THEN buffer_move_forward(cursor_move_right(s))
         ELSE s

remove_racer_sugesstion_and_reprint(s) ==
    IF s.racer_on THEN take_active_suggestion(s) ELSE s

\* handle_left that steps pos back and leaves the cursor where it is
handle_left_no_cursor(s) ==
    LET s1 == remove_racer_sugesstion_and_reprint(s)
    IN  IF ~buffer_is_at_start(s1) /\ ~buffer_is_empty(s1)
        THEN buffer_move_backward(s1)
        ELSE s1

handle_left(s) ==
    LET s1 == remove_racer_sugesstion_and_reprint(s)
    IN  IF ~buffer_is_at_start(s1) /\ ~buffer_is_empty(s1)
        THEN buffer_move_backward(cursor_move_left(s1))
        ELSE s1

\* handle_backspace without its guard, stepping pos back by hand
handle_backspace_unguarded(s) ==
    unlock_racer_update(history_unlock(
        buffer_remove_current_char(cursor_move_left([s EXCEPT !.pos = s.pos - 1]))))

\* handle_backspace that forgets the cursor
handle_backspace_no_cursor(s) ==
    IF ~buffer_is_at_start(s)
    THEN unlock_racer_update(history_unlock(
           buffer_remove_current_char(buffer_move_backward(s))))
    ELSE s

\* handle_backspace that deletes without stepping pos back
handle_backspace_no_move(s) ==
    IF ~buffer_is_at_start(s)
    THEN unlock_racer_update(history_unlock(
           buffer_remove_current_char(cursor_move_left(s))))
    ELSE s

handle_backspace(s) ==
    IF ~buffer_is_at_start(s)
    THEN unlock_racer_update(history_unlock(
           buffer_remove_current_char(cursor_move_left(buffer_move_backward(s)))))
    ELSE s

handle_del(s) ==
    IF ~buffer_is_empty(s)
    THEN unlock_racer_update(history_unlock(buffer_remove_current_char(s)))
    ELSE s

\* handle_ctrl_c that forgets the history lock
handle_ctrl_c_keeps_history_lock(s) ==
    cursor_goto_start(unlock_racer_update(buffer_clear(s)))

handle_ctrl_c(s) ==
    cursor_goto_start(unlock_racer_update(history_unlock(buffer_clear(s))))

handle_ctrl_l(s) == printer_clear(buffer_goto_start(buffer_clear(s)))

\* #[cfg(unix)]: the screen is cleared, the process stopped, and on SIGCONT
\* the prompt is drawn again
handle_ctrl_z(s) == handle_ctrl_l(s)

handle_ctrl_e(s, differs, outcome) == handle_enter(s, TRUE, differs, outcome)

\* while !self.printer.cursor.is_at_line_start() { self.handle_left()?; }
\* (fuel cuts the evaluation of a loop that makes no progress)
RECURSIVE home_loop(_, _)
home_loop(s, fuel) ==
    IF cursor_is_at_line_start(s) \/ fuel = 0 THEN s
    ELSE home_loop(handle_left(s), fuel - 1)

handle_home_key(s) == home_loop(s, Len(s.buffer) + 1)

\* the loop of handle_end_key running to the end of the buffer
RECURSIVE end_loop_to_buffer_end(_, _)
end_loop_to_buffer_end(s, fuel) ==
    IF buffer_is_empty(s) \/ s.cursor >= Len(s.buffer) \/ fuel = 0 THEN s
    ELSE end_loop_to_buffer_end(cursor_move_right(buffer_move_forward(s)), fuel - 1)

RECURSIVE end_loop(_, _)
end_loop(s, fuel) ==
    IF buffer_is_empty(s) \/ cursor_is_at_line_end(s) \/ fuel = 0 THEN s
    ELSE end_loop(cursor_move_right(buffer_move_forward(s)), fuel - 1)

handle_end_key(s) ==
    LET s1 == end_loop(s, Len(s.buffer) + 1)
    IN  IF s1.racer_on /\ s1.active_suggestion # <<>>
        THEN replay_characters(take_active_suggestion(s1), s1.active_suggestion[1])
        ELSE s1

\* the three classes of handle_ctrl_left's match, seen from previous_char
RECURSIVE left_while_space(_)
left_while_space(s) ==
    IF buffer_previous_char(s) = <<" ">>
    THEN left_while_space(buffer_move_backward(cursor_move_left(s)))
    ELSE s

RECURSIVE left_while_alphanumeric(_)
left_while_alphanumeric(s) ==
    LET p == buffer_previous_char(s)
    IN  IF p # <<>> /\ IsAlphanumeric(p[1])
        THEN left_while_alphanumeric(buffer_move_backward(cursor_move_left(s)))
        ELSE s

RECURSIVE left_while_other(_)
left_while_other(s) ==
    LET p == buffer_previous_char(s)
    IN  IF p # <<>> /\ ~IsAlphanumeric(p[1]) /\ p[1] # " "
        THEN left_while_other(buffer_move_backward(cursor_move_left(s)))
        ELSE s

\* handle_ctrl_left without its first step to the left
handle_ctrl_left_no_step(s) ==
    LET c == buffer_current_char(s)
    IN  IF c = <<>> THEN s
        ELSE IF c[1] = " " THEN left_while_space(s)
        ELSE IF IsAlphanumeric(c[1]) THEN left_while_alphanumeric(s)
        ELSE left_while_other(s)

handle_ctrl_left(s) ==
    LET s1 == handle_left(s)
        c == buffer_current_char(s1)
    IN  IF c = <<>> THEN s1
        ELSE IF c[1] = " " THEN left_while_space(s1)
        ELSE IF IsAlphanumeric(c[1]) THEN left_while_alphanumeric(s1)
        ELSE left_while_other(s1)

RECURSIVE right_while_space(_)
right_while_space(s) ==
    IF buffer_next_char(s) = <<" ">>
    THEN right_while_space(buffer_move_forward(cursor_move_right(s)))
    ELSE s

RECURSIVE right_while_alphanumeric(_)
right_while_alphanumeric(s) ==
    LET c == buffer_current_char(s)
    IN  IF c # <<>> /\ IsAlphanumeric(c[1])
        THEN right_while_alphanumeric(buffer_move_forward(cursor_move_right(s)))
        ELSE s

RECURSIVE right_while_other(_)
right_while_other(s) ==
    LET c == buffer_current_char(s)
    IN  IF c # <<>> /\ ~(IsAlphanumeric(c[1]) \/ c[1] = " ")
        THEN right_while_other(buffer_move_forward(cursor_move_right(s)))
        ELSE s

\* handle_ctrl_right whose ' ' arm ends with its loop
handle_ctrl_right_no_last_step(s) ==
    LET s1 == handle_right(s)
        c == buffer_current_char(s1)
    IN  IF c = <<>> THEN s1
        ELSE IF c[1] = " " THEN right_while_space(s1)
        ELSE IF IsAlphanumeric(c[1]) THEN right_while_alphanumeric(s1)
        ELSE right_while_other(s1)

handle_ctrl_right(s) ==
    LET s1 == handle_right(s)
        c == buffer_current_char(s1)
    IN  IF c = <<>> THEN s1
        ELSE IF c[1] = " "
             THEN buffer_move_forward(cursor_move_right(right_while_space(s1)))
        ELSE IF IsAlphanumeric(c[1]) THEN right_while_alphanumeric(s1)
        ELSE right_while_other(s1)

\* handle_ctrl_d that asks the question whatever the buffer holds
handle_ctrl_d_any_buffer(s) ==
    [printer_write_newline(s) EXCEPT !.mode = "confirm"]

\* handle_ctrl_d up to its first blocking read: on an empty buffer the
\* question is printed and the handler waits for the answer
handle_ctrl_d(s) ==
    IF buffer_is_empty(s)
    THEN [printer_write_newline(s) EXCEPT !.mode = "confirm"]
    ELSE s

\* the key events the confirmation loop can read; "read_error" is a failed read
ConfirmKeys ==
    {[code |-> "Char", ch |-> c, modifiers |-> "NONE"] : c \in {"y", "Y", "n", "a"}}
      \cup {[code |-> "Char", ch |-> "Y", modifiers |-> "SHIFT"],
            [code |-> "Char", ch |-> "d", modifiers |-> "CONTROL"],
            [code |-> "Enter", ch |-> "", modifiers |-> "NONE"],
            [code |-> "Left", ch |-> "", modifiers |-> "NONE"],
            [code |-> "read_error", ch |-> "", modifiers |-> "NONE"]}

\* one turn of the loop of handle_ctrl_d (lines 193-221)
confirm_key(s, key) ==
    IF key.code = "Char" /\ key.modifiers = "NONE"
    THEN IF key.ch \in {"y", "Y"}
         THEN [s EXCEPT !.mode = "exited"]
         ELSE [printer_write_newline(printer_write_newline(s)) EXCEPT !.mode = "editing"]
    ELSE IF (key.code = "Char" /\ key.ch = "d" /\ key.modifiers = "CONTROL")
              \/ key.code = "Enter"
         THEN [s EXCEPT !.mode = "exited"]
         ELSE s

\* the arms of the match of handle_input_event over a key event, whose
\* modifiers are a set of flags: TRUE when an arm before the last one takes key
matches_an_arm(key) ==
    \/ key.code = "Char" /\ key.modifiers \in {{}, {"SHIFT"}}
    \/ key.code = "Char" /\ key.modifiers = {"CONTROL"}
          /\ key.ch \in {"e", "c", "d", "z", "l", "r"}
    \/ key.code \in {"Enter", "Tab", "BackTab", "Up", "Down", "Backspace",
                      "Home", "End", "Delete"}
    \/ key.code \in {"Left", "Right"} /\ key.modifiers \in {{}, {"CONTROL"}}

\* the last arm taking any key that holds Ctrl or Alt
handle_unmatched_either_modifier(s, key) ==
    IF key.modifiers \cap {"CONTROL", "ALT"} # {} /\ key.code = "Char"
    THEN handle_character(s, key.ch)
    ELSE s

\* the last arm (keyevent => ...): AltGr on windows arrives as Ctrl+Alt
handle_unmatched(s, key) ==
    IF {"CONTROL", "ALT"} \subseteq key.modifiers /\ key.code = "Char"
    THEN handle_character(s, key.ch)
    ELSE s

\* Event::Mouse(_) => ()
handle_mouse(s) == s

\* a terminal read or write returns Err and the error reaches IRust::run
\* through the ? of every caller: run returns it and the session value is not
\* used again, so nothing of it is kept
io_error(s) ==
    [s EXCEPT !.mode = "failed", !.buffer = <<>>, !.pos = 0, !.cursor = 0,
              !.update_lock = FALSE, !.active_suggestion = <<>>,
              !.suggestions = <<>>, !.sugg_idx = 0, !.history_locked = FALSE]

\* history_events::handle_up / handle_down: the recall takes the history lock
handle_up(s) == history_lock(s)
handle_down(s) == history_lock(s)

----------------------------------------------------------------------------
(* The dispatcher (IRust::handle_input_event) and the host loop: one action *)
(* per event.  An event that would grow the buffer past MaxLen, or take    *)
(* the operation counter past MaxOps, is not dispatched.  ev names the     *)
(* last event when it was a session event (Enter, forced submit,           *)
(* interrupt, redraw, suspend, resize, the exit question and its answer, a *)
(* terminal failure) and is "key" after any other key or mouse event, a    *)
(* Ctrl+D that found the buffer non-empty among them.                      *)

Editing == mode = "editing"
Room(n) == n = 0 \/ Len(buffer) + n <= MaxLen

\* the longest text an accepted suggestion can add in the current state
SuggestionLen == IF active_suggestion = <<>> THEN 0 ELSE Len(active_suggestion[1])

Init ==
    /\ buffer = <<>>
    /\ buffer_pos = 0
    /\ cursor = 0
    /\ racer_on \in BOOLEAN
    /\ update_lock = FALSE
    /\ active_suggestion = <<>>
    /\ suggestions = <<>>
    /\ sugg_idx = 0
    /\ history_locked = FALSE
    /\ mode = "editing"
    /\ operation_number = 0
    /\ calls = <<>>
    /\ printed = <<>>
    /\ ev = "init"

HandleCharacter ==
    /\ Editing /\ Room(1)
    /\ \E c \in Chars : Apply(handle_character(Fresh, c), "key")

\* a submit that would take the operation counter past MaxOps is not dispatched
Counted(r) == r.operation_number <= MaxOps

HandleEnter ==
    /\ Editing /\ Room(1)
    /\ \E differs \in BOOLEAN, outcome \in EvalOutcomes :
         LET r == handle_enter(Fresh, FALSE, differs, outcome)
         IN  Counted(r) /\ Apply(r, "enter")

HandleCtrlE ==
    /\ Editing
    /\ \E differs \in BOOLEAN, outcome \in EvalOutcomes :
         LET r == handle_ctrl_e(Fresh, differs, outcome)
         IN  Counted(r) /\ Apply(r, "ctrl_e")

HandleAltEnter ==
    /\ Editing /\ Room(1)
    /\ Apply(handle_alt_enter(Fresh), "key")

HandleTab ==
    /\ Editing /\ Room(IF buffer_is_at_string_line_start(S) THEN Len(TAB) ELSE 0)
    /\ \E answer \in ProviderAnswers : Apply(handle_tab(Fresh, answer), "key")

HandleBackTab ==
    /\ Editing
    /\ \E answer \in ProviderAnswers : Apply(handle_back_tab(Fresh, answer), "key")

HandleLeft == Editing /\ Apply(handle_left(Fresh), "key")

HandleRight == Editing /\ Room(SuggestionLen) /\ Apply(handle_right(Fresh), "key")

HandleUp == Editing /\ Apply(handle_up(Fresh), "key")

HandleDown == Editing /\ Apply(handle_down(Fresh), "key")

HandleBackspace == Editing /\ Apply(handle_backspace(Fresh), "key")

HandleDel == Editing /\ Apply(handle_del(Fresh), "key")

HandleCtrlC == Editing /\ Apply(handle_ctrl_c(Fresh), "ctrl_c")

\* Event::Resize: cursor.update_dimensions, then handle_ctrl_c
HandleResize == Editing /\ Apply(handle_ctrl_c(Fresh), "resize")

HandleCtrlD ==
    Editing /\ Apply(handle_ctrl_d(Fresh), IF buffer = <<>> THEN "ctrl_d" ELSE "key")

\* ev after one turn of the confirmation loop
ConfirmLabel(key) == IF key.code = "read_error" THEN "read_error" ELSE "confirm"

ConfirmKey ==
    /\ mode = "confirm"
    /\ \E key \in ConfirmKeys : Apply(confirm_key(S, key), ConfirmLabel(key))

\* the flush at the head of the confirmation loop fails
ConfirmFlushFails == mode = "confirm" /\ Apply(io_error(S), "flush_error")

\* the flush at the head of the host loop fails
HostFlushFails == Editing /\ Apply(io_error(Fresh), "flush_error")

\* crossterm::event::read() fails in the host loop
HostReadFails == Editing /\ Apply(io_error(Fresh), "host_read_error")

\* a terminal write of the handler of an event fails and the handler returns
\* the error with ?
HandlerIoFails == Editing /\ Apply(io_error(Fresh), "write_error")

\* key events beside those the other actions dispatch
OtherKeys ==
    {[code |-> "Char", ch |-> c, modifiers |-> {"CONTROL", "ALT"}] : c \in Chars}
      \cup {[code |-> "Char", ch |-> "a", modifiers |-> m] :
               m \in {{"CONTROL", "ALT", "SHIFT"}, {"ALT"}, {"CONTROL"}}}
      \cup {[code |-> "Left", ch |-> "", modifiers |-> m] :
               m \in {{"SHIFT"}, {"CONTROL", "ALT"}}}
      \cup {[code |-> "F1", ch |-> "", modifiers |-> {}]}

HandleUnmatched ==
    /\ Editing
    /\ \E key \in OtherKeys :
         /\ ~matches_an_arm(key)
         /\ Room(IF handle_unmatched(Fresh, key).buffer # buffer THEN 1 ELSE 0)
         /\ Apply(handle_unmatched(Fresh, key), "key")

HandleMouse == Editing /\ Apply(handle_mouse(Fresh), "key")

HandleCtrlZ == Editing /\ Apply(handle_ctrl_z(Fresh), "ctrl_z")

HandleCtrlL == Editing /\ Apply(handle_ctrl_l(Fresh), "ctrl_l")

HandleHomeKey == Editing /\ Apply(handle_home_key(Fresh), "key")

HandleEndKey == Editing /\ Room(SuggestionLen) /\ Apply(handle_end_key(Fresh), "key")

HandleCtrlLeft == Editing /\ Apply(handle_ctrl_left(Fresh), "key")

HandleCtrlRight ==
    Editing /\ Room(SuggestionLen) /\ Apply(handle_ctrl_right(Fresh), "key")

Next ==
    \/ HandleCharacter
    \/ HandleEnter
    \/ HandleCtrlE
    \/ HandleAltEnter
    \/ HandleTab
    \/ HandleBackTab
    \/ HandleLeft
    \/ HandleRight
    \/ HandleUp
    \/ HandleDown
    \/ HandleBackspace
    \/ HandleDel
    \/ HandleCtrlC
    \/ HandleResize
    \/ HandleCtrlD
    \/ ConfirmKey
    \/ ConfirmFlushFails
    \/ HostFlushFails
    \/ HostReadFails
    \/ HandlerIoFails
    \/ HandleUnmatched
    \/ HandleMouse
    \/ HandleCtrlZ
    \/ HandleCtrlL
    \/ HandleHomeKey
    \/ HandleEndKey
    \/ HandleCtrlLeft
    \/ HandleCtrlRight

Spec == Init /\ [][Next]_vars

----------------------------------------------------------------------------
(* Navigation over given texts: the session holds one of NavTexts with pos *)
(* at its end, as after typing it, and only navigation keys follow.  Here  *)
(* ev names the key.                                                       *)

FooBarBaz == <<"f", "o", "o", " ", " ", "b", "a", "r", ".", "b", "a", "z">>

NavTexts ==
    {FooBarBaz, <<"a", " ", "b">>, <<"a", ".", "\n", " ", "b">>,
     <<" ", ".", ".", "a", " ", " ">>}

InitNav ==
    /\ buffer \in NavTexts
    /\ buffer_pos = Len(buffer)
    /\ cursor = Len(buffer)
    /\ racer_on \in BOOLEAN
    /\ update_lock = FALSE
    /\ active_suggestion = <<>>
    /\ suggestions = <<>>
    /\ sugg_idx = 0
    /\ history_locked \in BOOLEAN
    /\ mode = "editing"
    /\ operation_number = 0
    /\ calls = <<>>
    /\ printed = <<>>
    /\ ev = "init"

NavLeft == Apply(handle_left(Fresh), "left")
NavRight == Apply(handle_right(Fresh), "right")
NavHomeKey == Apply(handle_home_key(Fresh), "home")
NavEndKey == Apply(handle_end_key(Fresh), "end")
NavCtrlLeft == Apply(handle_ctrl_left(Fresh), "ctrl_left")
NavCtrlRight == Apply(handle_ctrl_right(Fresh), "ctrl_right")

NextNav ==
    \/ NavLeft
    \/ NavRight
    \/ NavHomeKey
    \/ NavEndKey
    \/ NavCtrlLeft
    \/ NavCtrlRight

SpecNav == InitNav /\ [][NextNav]_vars

----------------------------------------------------------------------------
(* The incompleteness detector over given texts: the session holds one of  *)
(* DetectTexts with pos at its end, as after typing it, and Enter follows. *)

\* longest text drawn from DetectChars
DetectLen == 3

DetectChars == {"(", ")", "[", "]", "{", "}", ":", ".", "=", " ", "1"}

FnMainOpen == <<"f", "n", " ", "m", "a", "i", "n", "(", ")", " ", "{">>
LetXEquals == <<"l", "e", "t", " ", "x", " ", "=">>
OnePlusOne == <<"1", " ", "+", " ", "1">>
BracedOne == <<"{", "1", "}">>

DetectTexts ==
    UNION {[1..n -> DetectChars] : n \in 0..DetectLen}
      \cup {FnMainOpen, LetXEquals, OnePlusOne, BracedOne}

InitDetect ==
    /\ buffer \in DetectTexts
    /\ buffer_pos = Len(buffer)
    /\ cursor = Len(buffer)
    /\ racer_on \in BOOLEAN
    /\ update_lock = FALSE
    /\ active_suggestion = <<>>
    /\ suggestions = <<>>
    /\ sugg_idx = 0
    /\ history_locked \in BOOLEAN
    /\ mode = "editing"
    /\ operation_number = 0
    /\ calls = <<>>
    /\ printed = <<>>
    /\ ev = "init"

DetectEnter ==
    /\ ev = "init"
    /\ \E differs \in BOOLEAN, outcome \in EvalOutcomes :
         LET r == handle_enter(Fresh, FALSE, differs, outcome)
         IN  Counted(r) /\ Apply(r, "enter")

NextDetect == DetectEnter

SpecDetect == InitDetect /\ [][NextDetect]_vars

----------------------------------------------------------------------------
(* Claims *)

\* what an event leaves of the text, the edit position and the cursor
SameTextPosCursor(r) == r.buffer = buffer /\ r.pos = buffer_pos /\ r.cursor = cursor

\* the buffer with c put at the edit position
WithInserted(c) ==
    SubSeq(buffer, 1, buffer_pos) \o <<c>> \o SubSeq(buffer, buffer_pos + 1, Len(buffer))

RECURSIVE trim_start(_)
trim_start(t) ==
    IF t # <<>> /\ IsWhitespace(Head(t)) THEN trim_start(Tail(t)) ELSE t

trim(t) == trim_start(trim_end(t))

Called(r, what) == \E i \in 1..Len(r.calls) : r.calls[i] = what

\* C1: after any sequence of dispatched events from the empty buffer the edit
\* position lies between 0 and the length of the buffer.
C1_PosInBounds == 0 <= buffer_pos /\ buffer_pos <= Len(buffer)

\* C1 witness: edits and moves have put pos at the end of a buffer of two or
\* more characters, one of them a newline
C1_Witness ==
    /\ Len(buffer) >= 2
    /\ buffer_pos = Len(buffer)
    /\ \E i \in 1..Len(buffer) : buffer[i] = "\n"

\* C2: the cursor stands as many cells after the prompt start as pos counts
\* characters, so its column agrees with pos measured from the start of the
\* logical line: every handler moves both by the same amount and resets both
\* together.
C2_CursorInSync == cursor = buffer_pos

\* C2 witness: Enter has put a newline into the buffer and moved both
C2_Witness == ev = "enter" /\ buffer # <<>> /\ buffer_pos > 1 /\ cursor = buffer_pos

\* the events of C3 and C4: a typed character, Enter, forced submit, Alt+Enter,
\* Tab at a line start, Backspace, Delete, Ctrl+C or Ctrl+L that changes the
\* text of the buffer
MutatingEvent ==
    /\ buffer' # buffer
    /\ \/ HandleCharacter
       \/ HandleEnter
       \/ HandleCtrlE
       \/ HandleAltEnter
       \/ (buffer_is_at_string_line_start(S) /\ HandleTab)
       \/ HandleBackspace
       \/ HandleDel
       \/ HandleCtrlC
       \/ HandleCtrlL

\* C3: after any event that inserts into, deletes from or clears the buffer
\* and is not the acceptance of the suggestion, no active suggestion remains.
C3_NoSuggestionAfterEdit == [][MutatingEvent => active_suggestion' = <<>>]_vars

\* C4: every buffer-mutating event other than the acceptance of a suggestion
\* clears the completion query lock.
C4_LockClearedAfterEdit == [][MutatingEvent => update_lock' = FALSE]_vars

\* C5: accepting the active suggestion with Right gives the buffer and the pos
\* that typing its characters one by one gives, and leaves no suggestion.
C5_AcceptIsTyping ==
    (Editing /\ racer_on /\ active_suggestion # <<>>) =>
        LET accepted == handle_right(Fresh)
            typed == replay_characters(Fresh, active_suggestion[1])
        IN  /\ accepted.buffer = typed.buffer
            /\ accepted.pos = typed.pos
            /\ accepted.active_suggestion = <<>>

\* C5 witness: a suggestion of two characters is active in the middle of the
\* buffer, and Right puts it there
C5_Witness ==
    /\ Editing /\ racer_on
    /\ active_suggestion = <<Cand2>>
    /\ buffer_pos < Len(buffer)
    /\ handle_right(Fresh).buffer =
         SubSeq(buffer, 1, buffer_pos) \o Cand2 \o SubSeq(buffer, buffer_pos + 1, Len(buffer))

\* C6 as stated: from the end of "foo  bar.baz" one Ctrl+Left puts pos at the
\* start of "baz" and a second one at the start of "bar".
C6_Original ==
    (buffer = FooBarBaz /\ buffer_pos = Len(buffer)) =>
        /\ handle_ctrl_left(Fresh).pos = 9
        /\ handle_ctrl_left(handle_ctrl_left(Fresh)).pos = 5

\* C6 amended: from the end of "foo  bar.baz" one Ctrl+Left puts pos at the
\* start of "baz", a second one on the "." before it, and a third one at the
\* start of "bar".
C6_WordJumps ==
    (buffer = FooBarBaz /\ buffer_pos = Len(buffer)) =>
        /\ handle_ctrl_left(Fresh).pos = 9
        /\ handle_ctrl_left(handle_ctrl_left(Fresh)).pos = 8
        /\ handle_ctrl_left(handle_ctrl_left(handle_ctrl_left(Fresh))).pos = 5

\* C6 witness: Ctrl+Left has stopped on the "." of "foo  bar.baz"
C6_Witness == buffer = FooBarBaz /\ ev = "ctrl_left" /\ buffer_pos = 8 /\ cursor = 8

\* the answers C7 names, as the characters and keys the user presses
AnswersYes(key) ==
    \/ (key.code = "Char" /\ key.ch \in {"y", "Y"} /\ key.modifiers \in {"NONE", "SHIFT"})
    \/ (key.code = "Char" /\ key.ch = "d" /\ key.modifiers = "CONTROL")
    \/ key.code = "Enter"

AnswersNo(key) ==
    key.code = "Char" /\ key.modifiers \in {"NONE", "SHIFT"} /\ key.ch \notin {"y", "Y"}

\* C7: in exit confirmation 'y', 'Y', a repeated Ctrl+D or Enter makes the
\* dispatcher return the terminate signal; any other character answers no:
\* the session goes on in editing with the buffer still empty.
C7_AnswerResolves ==
    [][\A key \in ConfirmKeys :
         (mode = "confirm" /\ Apply(confirm_key(S, key), ConfirmLabel(key))) =>
             /\ AnswersYes(key) => mode' = "exited"
             /\ AnswersNo(key) => (mode' = "editing" /\ buffer' = <<>>)]_vars

\* C8: Ctrl+C leaves the buffer empty with pos 0, history navigation
\* unlocked, the suggestion query lock cleared and the cursor at the prompt
\* start, and the session goes on.
C8_CtrlCResets ==
    ev = "ctrl_c" =>
        /\ buffer = <<>> /\ buffer_pos = 0
        /\ ~history_locked
        /\ ~update_lock
        /\ cursor = 0
        /\ mode = "editing"

\* C8 witness: Ctrl+C has acted in a session where completion had been used
C8_Witness == ev = "ctrl_c" /\ buffer = <<>> /\ racer_on /\ suggestions # <<>>

\* C9 as stated: at line start Home changes neither text, pos nor cursor, and
\* at line end End changes neither text, pos nor cursor.
C9_Original ==
    Editing =>
        /\ cursor_is_at_line_start(S) => SameTextPosCursor(handle_home_key(Fresh))
        /\ cursor_is_at_line_end(S) => SameTextPosCursor(handle_end_key(Fresh))

\* C9 amended: at line start Home changes neither text, pos nor cursor; at
\* line end End changes neither text, pos nor cursor when no suggestion is
\* active (an active suggestion is accepted by End).
C9_HomeEndIdempotent ==
    Editing =>
        /\ cursor_is_at_line_start(S) => SameTextPosCursor(handle_home_key(Fresh))
        /\ (cursor_is_at_line_end(S) /\ active_suggestion = <<>>) =>
               SameTextPosCursor(handle_end_key(Fresh))

\* C9 witness: the cursor is at the end of a line that is not the last one,
\* with the completion lock held and no suggestion left
C9_Witness ==
    /\ Editing /\ racer_on /\ update_lock /\ active_suggestion = <<>>
    /\ cursor < Len(buffer) /\ cursor > 0
    /\ cursor_is_at_line_end(S)

\* C10: Enter inserts a newline at pos and does not submit exactly when the
\* trimmed buffer does not start with ':' and the buffer is incomplete; in
\* every other case, and always for the forced submit, the buffer is
\* submitted and no newline is inserted.
C10_EnterRule ==
    Editing =>
        \A differs \in BOOLEAN, outcome \in EvalOutcomes :
            LET r == handle_enter(Fresh, FALSE, differs, outcome)
                f == handle_enter(Fresh, TRUE, differs, outcome)
                newline == ~starts_with(trim(buffer), <<":">>) /\ incomplete_input(buffer)
            IN  /\ newline =>
                      (r.buffer = WithInserted("\n") /\ ~Called(r, "evaluator_submit"))
                /\ ~newline => (Called(r, "evaluator_submit") /\ r.buffer = <<>>)
                /\ Called(f, "evaluator_submit") /\ f.buffer = <<>>

\* how many times the character c stands in the text t
CountOf(t, c) == Cardinality({i \in 1..Len(t) : t[i] = c})

\* some kind of bracket has more openers than closers or the reverse
HasUnmatchedBrackets(t) ==
    \E pair \in {<<"(", ")">>, <<"[", "]">>, <<"{", "}">>} :
        CountOf(t, pair[1]) # CountOf(t, pair[2])

\* the last character of t that is not whitespace is ':', '.' or '='
EndsInContinuation(t) ==
    \E i \in 1..Len(t) :
        /\ t[i] \in {":", ".", "="}
        /\ \A j \in (i + 1)..Len(t) : IsWhitespace(t[j])

C12_HistoryUnlockedAfterEdit == [][MutatingEvent => history_locked' = FALSE]_vars
\* the read of the confirmation loop fails
ConfirmReadFails ==
    /\ mode = "confirm"
    /\ \E key \in ConfirmKeys :
         key.code = "read_error" /\ Apply(confirm_key(S, key), ConfirmLabel(key))

\* C13: a terminal read or write failure while an event is handled, a failed
\* read inside the exit confirmation among them, is propagated to the host
\* loop and ends the session.
C13_IoFailureEndsSession ==
    [][(HostFlushFails \/ HostReadFails \/ HandlerIoFails \/ ConfirmFlushFails
          \/ ConfirmReadFails) => mode' = "failed"]_vars
\* the items r.printed holds, in order, are exactly those of items
Rendered(r, items) == r.printed = items

\* C14: when a submit (Enter on complete input, or the forced submit) reaches
\* the evaluator and the evaluator fails, the handler returns normally: the
\* buffer is empty with pos 0, the error is rendered, a new prompt is printed
\* and the session goes on.
C14_EvaluatorFailureRecovers ==
    Editing =>
        \A force_eval \in BOOLEAN, differs \in BOOLEAN :
            LET r == handle_enter(Fresh, force_eval, differs, "err")
            IN  Called(r, "evaluator_submit") =>
                    /\ r.buffer = <<>> /\ r.pos = 0
                    /\ Rendered(r, <<"error", "newline", "prompt">>)
                    /\ r.mode = "editing"

\* C14 witness: a forced submit of a non-empty buffer was pushed to history,
\* the evaluator failed, the error and the prompt were printed
C14_Witness ==
    /\ ev = "ctrl_e" /\ mode = "editing"
    /\ calls = <<"history_push", "evaluator_submit">>
    /\ printed = <<"error", "newline", "prompt">>
    /\ buffer = <<>> /\ buffer_pos = 0
\* the event of this step reached the evaluator and the evaluator succeeded
EvaluationSucceeded ==
    /\ \E i \in 1..Len(calls') : calls'[i] = "evaluator_submit"
    /\ \A i \in 1..Len(printed') : printed'[i] # "error"

\* C15: the operation counter never decreases and is incremented exactly once
\* for each successful evaluation: an event whose submit succeeded adds one,
\* a failed evaluation and every event that is not a submit leave it
\* unchanged.
C15_CounterCountsSuccesses ==
    [][operation_number' =
         operation_number + (IF EvaluationSucceeded THEN 1 ELSE 0)]_vars
\* C16 as stated: handling one input event issues at most one call into an
\* external collaborator (history push, evaluator submit, completion query).
C16_Original == Len(calls) <= 1

\* C16 amended: an event that is not a submit issues at most one call, a
\* completion query; a submit issues exactly one evaluator submit, with at
\* most one history push before it, and no other event calls the evaluator
\* or pushes to history.
C16_CallsPerEvent ==
    /\ calls \in {<<>>, <<"completion_query">>, <<"evaluator_submit">>,
                  <<"history_push", "evaluator_submit">>}
    /\ Called(S, "evaluator_submit") => ev \in {"enter", "ctrl_e"}

\* C16 witness: Enter on a complete buffer that is not empty pushed it to
\* history, submitted it and printed what the evaluator answered
C16_Witness ==
    /\ ev = "enter" /\ buffer = <<>>
    /\ calls = <<"history_push", "evaluator_submit">>
    /\ printed = <<"output", "prompt">>

\* C17: the completion provider is queried only by Tab or Shift+Tab and only
\* when pos is not at the start of a logical line: no other event, and
\* neither Tab nor Shift+Tab at a line start, queries it.
C17_QueryOnlyOffLineStart ==
    [][(\E i \in 1..Len(calls') : calls'[i] = "completion_query") =>
           /\ HandleTab \/ HandleBackTab
           /\ ~buffer_is_at_string_line_start(S)]_vars
\* key is a Ctrl+Alt+character key
CtrlAltCharacter(key) ==
    key.code = "Char" /\ "CONTROL" \in key.modifiers /\ "ALT" \in key.modifiers

\* r leaves the text, pos, the suggestion state and the history lock as they
\* are and the session in editing
Ignored(r) ==
    /\ r.buffer = buffer /\ r.pos = buffer_pos
    /\ r.update_lock = update_lock /\ r.active_suggestion = active_suggestion
    /\ r.suggestions = suggestions /\ r.sugg_idx = sugg_idx
    /\ r.history_locked = history_locked
    /\ r.mode = "editing"

\* C18: an event that matches no handler acts as the insertion of its
\* character when it is a Ctrl+Alt+character key; every other unmapped event
\* (mouse events, other keys and modifier combinations) leaves the text, pos,
\* the suggestion state and the history lock unchanged and the session goes
\* on.
C18_UnmatchedEvents ==
    Editing =>
        /\ Ignored(handle_mouse(Fresh))
        /\ \A key \in OtherKeys :
               ~matches_an_arm(key) =>
                   IF CtrlAltCharacter(key)
                   THEN handle_unmatched(Fresh, key) = handle_character(Fresh, key.ch)
                   ELSE Ignored(handle_unmatched(Fresh, key))

\* C18 witness: with the history lock and the completion lock held and pos
\* inside the text, Ctrl+Alt+a puts an "a" at pos and frees both, and Alt+a
\* changes nothing
C18_Witness ==
    /\ Editing /\ history_locked /\ update_lock
    /\ 0 < buffer_pos /\ buffer_pos < Len(buffer)
    /\ LET r == handle_unmatched(Fresh,
                   [code |-> "Char", ch |-> "a", modifiers |-> {"CONTROL", "ALT"}])
       IN  r.buffer = WithInserted("a") /\ ~r.history_locked /\ ~r.update_lock
    /\ Ignored(handle_unmatched(Fresh,
                   [code |-> "Char", ch |-> "a", modifiers |-> {"ALT"}]))
\* the three classes of the word jumps
Class(c) ==
    IF c = " " THEN "space" ELSE IF IsAlphanumeric(c) THEN "alphanumeric" ELSE "other"

\* the character at index i of the buffer, indices counted from 0
CharAt(i) == buffer[i + 1]

RightStops(q) ==
    q = Len(buffer) \/ Class(CharAt(q)) # Class(CharAt(buffer_pos + 1))

LeftStops(q) ==
    q = 0 \/ Class(CharAt(q - 1)) # Class(CharAt(buffer_pos - 1))

\* C19: with no active suggestion and pos < length, Ctrl+Right leaves the
\* content and puts pos at the least q >= pos+1 that is the length or holds
\* a character of another class than the one at pos+1; from pos > 0,
\* Ctrl+Left leaves the content and puts pos at the greatest q <= pos-1 that
\* is 0 or follows a character of another class than the one at pos-1.
C19_WordJumpTarget ==
    (Editing /\ active_suggestion = <<>>) =>
        /\ buffer_pos < Len(buffer) =>
              LET r == handle_ctrl_right(Fresh)
              IN  /\ r.buffer = buffer
                  /\ r.pos \in (buffer_pos + 1)..Len(buffer)
                  /\ RightStops(r.pos)
                  /\ \A q \in (buffer_pos + 1)..(r.pos - 1) : ~RightStops(q)
        /\ buffer_pos > 0 =>
              LET l == handle_ctrl_left(Fresh)
              IN  /\ l.buffer = buffer
                  /\ l.pos \in 0..(buffer_pos - 1)
                  /\ LeftStops(l.pos)
                  /\ \A q \in (l.pos + 1)..(buffer_pos - 1) : ~LeftStops(q)

\* C19 witness: in "foo  bar.baz" Ctrl+Right from the end of "foo" has
\* jumped over the two spaces to the start of "bar"
C19_Witness ==
    /\ buffer = FooBarBaz /\ ev = "ctrl_right" /\ buffer_pos = 5
    /\ handle_ctrl_left(Fresh).pos = 3
\* C20: Backspace at pos 0 changes neither the text, pos, the cursor, the
\* history lock nor the suggestion lock; at pos > 0 it removes exactly the
\* character at index pos-1, keeps every other character in order, takes one
\* from pos and moves the cursor left by one.
C20_BackspaceFrame ==
    Editing =>
        LET r == handle_backspace(Fresh)
        IN  /\ buffer_pos = 0 =>
                  /\ SameTextPosCursor(r)
                  /\ r.history_locked = history_locked
                  /\ r.update_lock = update_lock
            /\ buffer_pos > 0 =>
                  /\ r.buffer = SubSeq(buffer, 1, buffer_pos - 1)
                                   \o SubSeq(buffer, buffer_pos + 1, Len(buffer))
                  /\ r.pos = buffer_pos - 1
                  /\ r.cursor = cursor - 1

\* C20 witness: pos stands between two different characters with both locks
\* held, and Backspace removes the one on the left
C20_Witness ==
    /\ Editing /\ history_locked /\ update_lock
    /\ 0 < buffer_pos /\ buffer_pos < Len(buffer)
    /\ buffer[buffer_pos] # buffer[buffer_pos + 1]
    /\ handle_backspace(Fresh).buffer # buffer

\* pos stands at the start of a logical line: at 0 or right after a newline
AtLineStart == buffer_pos = 0 \/ buffer[buffer_pos] = "\n"

\* r.buffer is the buffer with four whitespace characters put at pos
FourColumnsInserted(r) ==
    /\ Len(r.buffer) = Len(buffer) + 4
    /\ SubSeq(r.buffer, 1, buffer_pos) = SubSeq(buffer, 1, buffer_pos)
    /\ \A i \in 1..4 : IsWhitespace(r.buffer[buffer_pos + i])
    /\ SubSeq(r.buffer, buffer_pos + 5, Len(r.buffer))
         = SubSeq(buffer, buffer_pos + 1, Len(buffer))

\* C21: Tab with pos at the start of a logical line inserts a whitespace run
\* of exactly four columns at pos, advances pos by four and the cursor by
\* four columns and performs no completion query; Shift+Tab never changes
\* the content of the buffer or pos.
C21_TabInsertsFourColumns ==
    Editing =>
        \A answer \in ProviderAnswers :
            /\ AtLineStart =>
                  LET r == handle_tab(Fresh, answer)
                  IN  /\ FourColumnsInserted(r)
                      /\ r.pos = buffer_pos + 4
                      /\ r.cursor = cursor + 4
                      /\ ~Called(r, "completion_query")
            /\ LET b == handle_back_tab(Fresh, answer)
               IN  b.buffer = buffer /\ b.pos = buffer_pos

\* C21 witness: Tab on the empty buffer of a session with completion enabled
\* has put the four characters of TAB there, and Shift+Tab at their end
\* queries the provider
C21_Witness ==
    /\ Editing /\ racer_on /\ ev = "key"
    /\ buffer = TAB /\ buffer_pos = 4 /\ cursor = 4 /\ calls = <<>>
    /\ \E answer \in ProviderAnswers :
         Called(handle_back_tab(Fresh, answer), "completion_query")

\* this step is a turn of the confirmation loop that read a confirming key
Confirmed ==
    /\ mode = "confirm"
    /\ \E key \in ConfirmKeys :
         /\ AnswersYes(key)
         /\ Apply(confirm_key(S, key), ConfirmLabel(key))

\* C22: the dispatcher returns the terminate signal only from a Ctrl+D that
\* was dispatched while the buffer was empty and was then confirmed; every
\* other event returns continue, and so does Ctrl+D on a buffer that is not
\* empty, which leaves the buffer and pos as they are.
C22_TerminateOnlyFromCtrlD ==
    [][/\ mode' = "exited" => (Confirmed /\ buffer = <<>>)
       /\ (mode' = "confirm" /\ mode # "confirm") =>
              (HandleCtrlD /\ buffer = <<>> /\ ev' = "ctrl_d")
       /\ (HandleCtrlD /\ buffer # <<>>) =>
              (mode' = "editing" /\ buffer' = buffer /\ buffer_pos' = buffer_pos)
      ]_vars

\* C22 witness: after a submit that was counted, Ctrl+D on the empty buffer
\* was confirmed and the dispatcher returned the terminate signal
C22_Witness ==
    /\ mode = "exited" /\ ev = "confirm"
    /\ buffer = <<>> /\ operation_number = 1

\* C23: from every state reachable by dispatched events the Home handler
\* terminates: every Left step of its loop taken while the cursor is not at
\* a line start brings the cursor closer to the prompt start, which it
\* cannot pass, and the loop ends, within as many steps as pos counts, in a
\* state where the cursor reports at-line-start; with pos 0 or the buffer
\* empty it ends without a step.
C23_HomeTerminates ==
    Editing =>
        /\ cursor >= 0
        /\ ~cursor_is_at_line_start(S) =>
              (handle_left(Fresh).cursor < cursor /\ handle_left(Fresh).cursor >= 0)
        /\ cursor_is_at_line_start(home_loop(Fresh, buffer_pos))
        /\ (buffer_pos = 0 \/ buffer = <<>>) => cursor_is_at_line_start(S)

\* C23 witness: pos is two or more characters into a line that is not the
\* first one, a suggestion is shown, and Home stops behind the newline
C23_Witness ==
    /\ Editing /\ active_suggestion # <<>>
    /\ ~cursor_is_at_line_start(S)
    /\ ~cursor_is_at_line_start(handle_left(Fresh))
    /\ LET r == handle_home_key(Fresh)
       IN  r.pos > 0 /\ r.pos < buffer_pos /\ r.active_suggestion = <<>>

====
